---- MODULE Spec2Model ----
(***************************************************************************)
(* The Republisher of go-mfs (repub.go): callers submit values with        *)
(* Update, force and await a publish with WaitPub, and one run loop        *)
(* goroutine batches the updates behind a short and a long timer, calls    *)
(* the publish callback, and retries after a failure.                      *)
(***************************************************************************)
EXTENDS Integers, Sequences, FiniteSets, TLC

\* ------------------------------------------------------------------ bounds
NumValues == 2      \* distinct cid values callers submit
MaxUpdates == 2     \* Update calls in one run
MaxFailures == 1    \* publish attempts that fail in one run
MaxCalls == 4       \* File.Open and File.Sync calls in one run

\* cid.Undef, the zero value of cid.Cid (`var toPublish cid.Cid`).
Undef == 0
\* A nil `waiter` channel (`var waiter chan struct{}`).
None == "nil"

Values == 1..NumValues
\* The goroutines that call Update, concurrently.
Updaters == {"u1", "u2"}
\* The goroutines that call WaitPub, one call each; a call's wait channel is
\* named after its caller.
Waiters == {"w1", "w2"}
\* The goroutines that call Close, one call each.  Close calls WaitPub: a
\* closer has a wait channel of its own.
Closers == {"c1", "c2"}
\* The goroutines that use the File, each holding at most one descriptor.
FThreads == {"f1", "f2", "f3"}
\* The goroutines that use the Root: the owner calls Flush, Close and
\* updateChildEntry, the other one, flushing a directory, updateChildEntry.
Roots == {"r1", "r2"}
Owner == "r1"
\* The hashes the root directory's node takes: two of the values.
RootHashes == {1, NumValues}
\* What the node given to NewRoot can be: a unixfs directory, a HAMT shard,
\* another unixfs type, or not unixfs data.
RootKinds == {"directory", "hamt", "file", "baddata"}
\* Flags{Read, Write} (Sync does not matter to Open).
NoFlags == [Read |-> FALSE, Write |-> FALSE]
FlagSet == [Read : BOOLEAN, Write : BOOLEAN]
\* What a File's node can be: a ProtoNode whose unixfs data is a file, raw
\* data, a symlink, a directory (or another type) or not unixfs data at all,
\* or a node that is no ProtoNode (a raw leaf).
NodeKinds == {"file", "raw", "symlink", "directory", "baddata", "rawnode"}

\* A cid as the model carries it: the value v, and for the properties the
\* number id of the Update call that submitted it (0: none).  The program
\* compares cids by value only.
Cid(v, id) == [v |-> v, id |-> id]
UndefCid == Cid(Undef, 0)
\* cid.Equals and cid.Defined
Equals(a, b) == a.v = b.v
Defined(c) == c.v # Undef

VARIABLES
    \* ---- Republisher fields and the run goroutine's locals
    update,         \* rp.update: buffered channel of capacity 1 (a sequence)
    ctxDone,        \* the run context is cancelled
    stopped,        \* rp.stopped is closed
    pc,             \* run: "select" | "pubfunc" | "exited"
    toPublish,      \* run's local toPublish
    lastPublished,  \* run's local lastPublished
    waiter,         \* run's local waiter (the wait channel of a WaitPub call)
    quick,          \* run's quick timer: "stopped" | "armed" | "fired"
    longer,         \* run's longer timer
    closedW,        \* the wait channels that have been closed
    \* ---- callers
    wpc,            \* WaitPub call of each waiter: "idle" | "send" | "wait" | "nil" | "err"
    upc,            \* Update call of each updater: "idle" | "resend"
    uval,           \* the cid an updater in "resend" still has to send
    \* ---- history (read by the properties only)
    seed,           \* the lastPublished given to NewRepublisher
    subs,           \* subs[i]: the value of the i-th Update call
    returned,       \* the Update calls that have returned
    hbefore,        \* hbefore[i]: the Update calls returned when call i began
    log,            \* the callback invocations that returned: [v, id, ok]
    nFail,          \* how many invocations failed
    trigger,        \* the select case behind the attempt in flight or last made
    lastRecvId,     \* the Update call of the value run last received
    waiterWant,     \* the Update calls returned when run took waiter's request
    batchOpen,      \* run's last select case was an update it kept (a batch:
                    \* updates received back to back, no other case between)
    coalesced,      \* the pending value the batch's last update replaced
    batchCalls,     \* callback invocations begun since the batch's last update
    batchFails,     \* ... and how many of them failed
    retAtReturn,    \* the Update calls returned when the callback last returned
    inFlight,       \* callback invocations begun and not yet returned
    \* ---- Republisher.Close callers
    cpc,            \* Close call of each closer: "idle" | "once" | "blocked" | "select" | "nil" | "err"
    once,           \* rp.once: [by |-> the closer running or having run f, done |-> f returned]
    cctx,           \* the context given to each Close call is done
    \* ---- a File, its descriptor lock (a sync.RWMutex) and its callers
    fnode,          \* fi.node: the kind of the file's root node ("none": no File yet)
    rwW,            \* desclock: the goroutine that holds the writer mutex rw.w
                    \* (a pending or active writer; readers arriving now wait)
    rwHeld,         \* desclock: that writer holds the lock (no reader is left)
    rwReaders,      \* desclock: the goroutines that hold the lock for reading
    fpc,            \* each goroutine: "idle" | "wlock" | "rwait" | "body" | "open" | "sync" | "synced"
    fflags,         \* the Flags of a goroutine's Open call
    fres,           \* the result of a goroutine's last Open: "none" | "ok" | "err"
    \* ---- history of the File
    fdId,           \* the number of the descriptor a goroutine holds open (0: none)
    nOpen,          \* Open calls so far
    syncSeen,       \* the descriptors that were open when a goroutine called Sync
    \* ---- a Root, its directory and the goroutines that use it
    root,           \* "none" | "failed" | "repub" (kr.repub # nil) | "norepub"
    dirHash,        \* the hash of the root directory's current node
    store,          \* the hashes of the nodes the DAG service has stored
    dirLock,        \* dir.lock: the goroutine that holds it
    rpc,            \* each goroutine: "idle" | "lock" | "add" | "update" | "resend" | "waitpub" | "defer"
    rop,            \* the Root operation a goroutine is in or was last in
    rval,           \* the hash that operation passes to Update
    rres,           \* the error the operation has so far, and its result once it returned
    rclosed,        \* the goroutine's Root.Close has returned
    \* ---- history of the Root
    rootHash0,      \* the hash of the node given to NewRoot
    closeSub        \* the number of the Update call Root.Close made (0: none)

progVars == <<update, ctxDone, stopped, pc, toPublish, lastPublished, waiter,
              quick, longer, closedW, wpc, upc, uval>>
histVars == <<seed, subs, returned, hbefore, log, nFail,
              trigger, lastRecvId, waiterWant, batchOpen, coalesced, batchCalls,
              batchFails, retAtReturn, inFlight>>
closeVars == <<cpc, once, cctx>>
\* What the Republisher's own operations leave alone.
fileVars == <<fnode, rwW, rwHeld, rwReaders, fpc, fflags, fres, fdId, nOpen, syncSeen>>
\* The tree's side: what neither the Republisher nor its Close touches.
rootVars == <<root, dirHash, store, dirLock, rpc, rop, rval, rres, rclosed,
              rootHash0, closeSub>>
treeVars == <<fileVars, rootVars>>
extVars == <<closeVars, treeVars>>
\* What the File's operations leave alone.
notFile == <<progVars, histVars, closeVars, rootVars>>
\* What the Root's own steps leave alone.
notRoot == <<progVars, histVars, closeVars, fileVars>>
vars == <<progVars, histVars, extVars>>

callerVars == <<wpc, upc, uval, subs, returned, hbefore>>
loopHist == <<log, nFail, trigger, lastRecvId, waiterWant, batchOpen,
              coalesced, batchCalls, batchFails, retAtReturn, inFlight>>

Last(s) == s[Len(s)]

\* ------------------------------------------------------------------ Init
\* NewRepublisher: empty channels, a running loop whose timers were created
\* and stopped, nothing pending, lastPublished as given.
Init ==
    /\ seed \in {Undef, 1}
    /\ update = <<>>
    /\ ctxDone = FALSE
    /\ stopped = FALSE
    /\ pc = "select"
    /\ toPublish = UndefCid
    /\ lastPublished = Cid(seed, 0)
    /\ waiter = None
    /\ quick = "stopped"
    /\ longer = "stopped"
    /\ closedW = {}
    /\ wpc = [w \in Waiters \cup Closers |-> "idle"]
    /\ upc = [u \in Updaters |-> "idle"]
    /\ uval = [u \in Updaters |-> UndefCid]
    /\ subs = <<>>
    /\ returned = {}
    /\ hbefore = <<>>
    /\ log = <<>>
    /\ nFail = 0
    /\ trigger = "none"
    /\ lastRecvId = 0
    /\ waiterWant = {}
    /\ batchOpen = FALSE
    /\ coalesced = Undef
    /\ batchCalls = 0
    /\ batchFails = 0
    /\ inFlight = 0
    /\ retAtReturn = {}
    /\ cpc = [c \in Closers |-> "idle"]
    /\ once = [by |-> None, done |-> FALSE]
    /\ cctx = [c \in Closers |-> FALSE]
    /\ fnode = "none"
    /\ rwW = None
    /\ rwHeld = FALSE
    /\ rwReaders = {}
    /\ fpc = [t \in FThreads |-> "idle"]
    /\ fflags = [t \in FThreads |-> NoFlags]
    /\ fres = [t \in FThreads |-> "none"]
    /\ fdId = [t \in FThreads |-> 0]
    /\ nOpen = 0
    /\ syncSeen = [t \in FThreads |-> {}]
    /\ root = "none"
    /\ dirHash = Undef
    /\ store = {}
    /\ dirLock = None
    /\ rpc = [r \in Roots |-> "idle"]
    /\ rop = [r \in Roots |-> "none"]
    /\ rval = [r \in Roots |-> Undef]
    /\ rres = [r \in Roots |-> "none"]
    /\ rclosed = [r \in Roots |-> FALSE]
    /\ rootHash0 = Undef
    /\ closeSub = 0

\* ------------------------------------------------------------------ callers
\* UpdateCallBody with a plain send in place of the select: the caller
\* waits while the channel is full.
UpdateCallBlocks(u, c) ==
    /\ upc[u] = "idle"
    /\ Len(subs) < MaxUpdates
    /\ update = <<>>
    /\ subs' = Append(subs, c)
    /\ hbefore' = Append(hbefore, returned)
    /\ update' = <<Cid(c, Len(subs) + 1)>>
    /\ returned' = returned \cup {Len(subs) + 1}
    /\ UNCHANGED <<ctxDone, stopped, pc, toPublish, lastPublished, waiter, quick,
                   longer, closedW, wpc, upc, uval, seed, loopHist>>

\* Update, lines 83-92, first select: exactly one case is ready, because the
\* channel has capacity 1.  `case <-rp.update` empties a full channel and goes
\* on to the inner select; `case rp.update <- c` fills an empty one and returns.
UpdateCallBody(u, c) ==
    /\ upc[u] = "idle"
    /\ Len(subs) < MaxUpdates
    /\ subs' = Append(subs, c)
    /\ hbefore' = Append(hbefore, returned)
    /\ IF update # <<>>
       THEN /\ update' = <<>>
            /\ upc' = [upc EXCEPT ![u] = "resend"]
            /\ uval' = [uval EXCEPT ![u] = Cid(c, Len(subs) + 1)]
            /\ UNCHANGED returned
       ELSE /\ update' = <<Cid(c, Len(subs) + 1)>>
            /\ returned' = returned \cup {Len(subs) + 1}
            /\ UNCHANGED <<upc, uval>>
    /\ UNCHANGED <<ctxDone, stopped, pc, toPublish, lastPublished, waiter, quick,
                   longer, closedW, wpc, seed, loopHist>>

\* Update called by a goroutine that does nothing else.
UpdateCall(u, c) == UpdateCallBody(u, c) /\ UNCHANGED extVars

\* Lines 85-90: the channel after the inner select of an Update that holds c.
\* `case rp.update <- c` when there is room, `default` (give up: a concurrent
\* Update has filled the channel, and its value wins) otherwise.
SendOrGiveUp(ch, c) == IF ch = <<>> THEN <<c>> ELSE ch

\* Update, lines 85-90: the inner select, and return.
UpdateResendBody(u) ==
    /\ upc[u] = "resend"
    /\ update' = SendOrGiveUp(update, uval[u])
    /\ returned' = returned \cup {uval[u].id}
    /\ upc' = [upc EXCEPT ![u] = "idle"]
    /\ uval' = [uval EXCEPT ![u] = UndefCid]
    /\ UNCHANGED <<ctxDone, stopped, pc, toPublish, lastPublished, waiter, quick,
                   longer, closedW, wpc, seed, subs, hbefore, loopHist>>

UpdateResend(u) == UpdateResendBody(u) /\ UNCHANGED extVars

\* WaitPub, lines 47-48: make the wait channel and block in the first select,
\* offering it on the unbuffered rp.immediatePublish.
WaitPubCall(w) ==
    /\ wpc[w] = "idle"
    /\ wpc' = [wpc EXCEPT ![w] = "send"]
    /\ UNCHANGED <<update, ctxDone, stopped, pc, toPublish, lastPublished, waiter,
                   quick, longer, closedW, upc, uval, seed, subs, returned,
                   hbefore, loopHist>>
    /\ UNCHANGED extVars

\* WaitPub, lines 54-55: the wait channel is closed, return nil.
WaitPubReturnNil(w) ==
    /\ wpc[w] = "wait"
    /\ w \in closedW
    /\ wpc' = [wpc EXCEPT ![w] = "nil"]
    /\ UNCHANGED <<update, ctxDone, stopped, pc, toPublish, lastPublished, waiter,
                   quick, longer, closedW, upc, uval, seed, subs, returned,
                   hbefore, loopHist>>
    /\ UNCHANGED extVars

\* WaitPubCtxDone with the bug of cancelling the run loop's context together
\* with the caller's.
WaitPubCancelsRun(w) ==
    /\ wpc[w] \in {"send", "wait"}
    /\ wpc' = [wpc EXCEPT ![w] = "err"]
    /\ ctxDone' = TRUE
    /\ UNCHANGED <<update, stopped, pc, toPublish, lastPublished, waiter,
                   quick, longer, closedW, upc, uval, seed, subs, returned,
                   hbefore, loopHist>>
    /\ UNCHANGED extVars

\* WaitPub, lines 50-51 and 56-57: the caller's own context is done in either
\* select, return ctx.Err().  The context is the caller's, not the run loop's.
WaitPubCtxDone(w) ==
    /\ wpc[w] \in {"send", "wait"}
    /\ wpc' = [wpc EXCEPT ![w] = "err"]
    /\ UNCHANGED <<update, ctxDone, stopped, pc, toPublish, lastPublished, waiter,
                   quick, longer, closedW, upc, uval, seed, subs, returned,
                   hbefore, loopHist>>
    /\ UNCHANGED extVars

\* The shutdown signal: the context run was started with is cancelled
\* (rp.cancel, line 68, or the context given to NewRepublisher).
Cancel ==
    /\ ~ctxDone
    /\ ctxDone' = TRUE
    /\ UNCHANGED <<update, stopped, pc, toPublish, lastPublished, waiter, quick,
                   longer, closedW, callerVars, seed, loopHist>>
    /\ UNCHANGED extVars

\* ------------------------------------------------------------------ timers
\* A running timer expires: its channel holds a value.  The timers are locals
\* of run; once run has returned nothing reads them.
QuickFire ==
    /\ pc # "exited"
    /\ quick = "armed"
    /\ quick' = "fired"
    /\ UNCHANGED <<update, ctxDone, stopped, pc, toPublish, lastPublished, waiter,
                   longer, closedW, callerVars, seed, loopHist>>
    /\ UNCHANGED extVars

LongerFire ==
    /\ pc # "exited"
    /\ longer = "armed"
    /\ longer' = "fired"
    /\ UNCHANGED <<update, ctxDone, stopped, pc, toPublish, lastPublished, waiter,
                   quick, closedW, callerVars, seed, loopHist>>
    /\ UNCHANGED extVars

\* Timer.Reset.  On a timer that has expired and whose channel was not drained,
\* Go before 1.23 leaves the stale value in the channel (the channel stays
\* ready), Go 1.23 and later discards it: either outcome, by the build.
ResetTimer(t) == IF t = "fired" THEN {"armed", "fired"} ELSE {"armed"}

\* ------------------------------------------------------------------ run
\* `for ctx.Err() == nil` (line 124): where the loop is after an iteration;
\* leaving the loop runs the deferred close(rp.stopped) (line 111).
LoopHead == IF ctxDone THEN "exited" ELSE "select"

\* IsAlreadyPublished with the comparison lost: nothing is skipped.
NeverAlreadyPublished(last, newValue) == FALSE

\* Line 130: `lastPublished.Equals(newValue)`.
IsAlreadyPublished(last, newValue) == Equals(last, newValue)

\* LongerOnUpdate with the bug of resetting the long timer on every update.
LongerAlwaysReset(pending, t) == ResetTimer(t)

\* Lines 137-139: the long timer is reset only when nothing is pending.
LongerOnUpdate(pending, t) == IF ~Defined(pending) THEN ResetTimer(t) ELSE {t}

\* NewPending with the bug of keeping the value already pending.
NewPendingKeepsFirst(pending, newValue) ==
    IF Defined(pending) THEN pending ELSE newValue

\* Line 145: `toPublish = newValue`.
NewPending(pending, newValue) == newValue

\* Lines 149-152: a WaitPub request takes a buffered update, if there is one.
DrainLatest(pending, ch) == IF ch # <<>> THEN Head(ch) ELSE pending

\* DedupImmediate with the comparison lost.
NoDedupImmediate(last, pending) == pending

\* Lines 155-157: a WaitPub request does not publish what is already published.
DedupImmediate(last, pending) == IF Equals(last, pending) THEN UndefCid ELSE pending

\* AfterSuccess with the two assignments confused: the old lastPublished
\* becomes pending again.
AfterSuccessSwapped(last, pending) == [last |-> pending, pending |-> last]

\* Lines 188-189: after a successful attempt.
AfterSuccess(last, pending) == [last |-> pending, pending |-> UndefCid]

\* Lines 182-196: the waiter is kept across a failed attempt (continue) and
\* closed and forgotten after a successful one.
WaiterAfterAttempt(ok, w) == IF ok THEN None ELSE w

\* ClosedAfterAttempt with the bug of closing the waiter after a failed
\* attempt too.
ClosedAfterAnyAttempt(ok, w, closed) ==
    IF w # None THEN closed \cup {w} ELSE closed

\* Lines 193-196, reached only after a successful attempt (line 186).
ClosedAfterAttempt(ok, w, closed) ==
    IF ok /\ w # None THEN closed \cup {w} ELSE closed

\* LongerAfterAttempt with the bug of not re-arming the long timer after a
\* failure: nothing is scheduled to retry.
LongerNotRearmed(ok, t) == {t}

\* Line 185: `longer.Reset(timeoutLong)` after a failed attempt; a successful
\* one leaves the timer as the cleanup stopped it.
LongerAfterAttempt(ok, t) == IF ok THEN {t} ELSE ResetTimer(t)

\* PcAfterFailure with the bug of returning from run on a publish error.
ExitAfterFailure == "exited"

\* Lines 182-187: after a failed attempt the loop goes on (continue).
PcAfterFailure == LoopHead

\* StopAndDrain with the Stop and the drain left out: the timer stays as it is.
TimerLeftRunning(t) == t

\* Lines 167-177: `t.Stop()` followed by a non-blocking receive from t.C: the
\* timer is not running and its channel is empty.
StopAndDrain(t) == "stopped"

\* CallPubfunc with the callback started in a goroutine of its own: the loop
\* goes on without waiting for it.
CallPubfuncDetached == LoopHead

\* Line 181: `err := rp.pubfunc(ctx, toPublish)` is an ordinary call: the
\* loop is in the callback until it returns.
CallPubfunc == "pubfunc"

\* Lines 162-196 after a select case that did not `continue`: stop and drain
\* both timers; with a value to publish call the callback (the loop blocks in
\* it), otherwise close the waiter, if any, and go round the loop.
Cleanup(tp, w, want, trig) ==
    /\ quick' = StopAndDrain(quick)
    /\ longer' = StopAndDrain(longer)
    /\ IF Defined(tp)
       THEN /\ pc' = CallPubfunc
            /\ waiter' = w
            /\ closedW' = closedW
            /\ waiterWant' = want
            /\ trigger' = trig
            /\ batchCalls' = batchCalls + 1
            /\ inFlight' = inFlight + 1
       ELSE /\ pc' = LoopHead
            /\ waiter' = None
            /\ closedW' = IF w # None THEN closedW \cup {w} ELSE closedW
            /\ waiterWant' = {}
            /\ trigger' = trigger
            /\ batchCalls' = batchCalls
            /\ inFlight' = inFlight
    /\ stopped' = (pc' = "exited")

\* Lines 126-127: `case <-ctx.Done(): return`.
SelCtxDone ==
    /\ pc = "select"
    /\ ctxDone
    /\ pc' = "exited"
    /\ stopped' = TRUE
    /\ UNCHANGED <<update, ctxDone, toPublish, lastPublished, waiter, quick, longer,
                   closedW, callerVars, seed, loopHist>>
    /\ UNCHANGED extVars

\* Lines 128-146: `case newValue := <-rp.update`.  A value equal to
\* lastPublished clears toPublish and breaks to the cleanup; any other value
\* becomes toPublish, (re)arms the timers and continues.
SelUpdate ==
    /\ pc = "select"
    /\ update # <<>>
    /\ update' = <<>>
    /\ lastRecvId' = Head(update).id
    /\ IF IsAlreadyPublished(lastPublished, Head(update))
       THEN /\ toPublish' = UndefCid
            /\ batchOpen' = FALSE
            /\ Cleanup(UndefCid, waiter, waiterWant, trigger)
            /\ UNCHANGED <<coalesced, batchFails>>
       ELSE /\ longer' \in LongerOnUpdate(toPublish, longer)
            /\ quick' \in ResetTimer(quick)
            /\ toPublish' = NewPending(toPublish, Head(update))
            /\ batchOpen' = TRUE
            /\ coalesced' = IF batchOpen /\ ~Equals(toPublish, Head(update))
                            THEN toPublish.v ELSE Undef
            /\ batchCalls' = 0
            /\ batchFails' = 0
            /\ pc' = LoopHead
            /\ stopped' = (pc' = "exited")
            /\ UNCHANGED <<waiter, closedW, trigger, waiterWant, inFlight>>
    /\ UNCHANGED <<ctxDone, lastPublished, callerVars, seed, log, nFail,
                   retAtReturn>>
    /\ UNCHANGED extVars

\* Lines 147-157, then 162-196: `case waiter = <-rp.immediatePublish`.  The
\* request of a WaitPub call blocked in its first select is taken, the local
\* waiter is overwritten with its channel, a buffered update is drained into
\* toPublish, and the cleanup follows.
SelWaiter(w) ==
    /\ pc = "select"
    /\ wpc[w] = "send"
    /\ wpc' = [wpc EXCEPT ![w] = "wait"]
    /\ update' = <<>>
    /\ toPublish' = DedupImmediate(lastPublished, DrainLatest(toPublish, update))
    /\ lastRecvId' = IF update # <<>> THEN Head(update).id ELSE lastRecvId
    /\ batchOpen' = FALSE
    /\ coalesced' = IF update # <<>> THEN Undef ELSE coalesced
    /\ batchFails' = batchFails
    /\ Cleanup(toPublish', w, returned, "waitpub")
    /\ UNCHANGED <<ctxDone, lastPublished, upc, uval, seed, subs, returned,
                   hbefore, log, nFail, retAtReturn>>
    /\ UNCHANGED extVars

\* Line 158, then 162-196: `case <-quick.C`.
SelQuick ==
    /\ pc = "select"
    /\ quick = "fired"
    /\ batchOpen' = FALSE
    /\ Cleanup(toPublish, waiter, waiterWant, "quick")
    /\ UNCHANGED <<update, ctxDone, toPublish, lastPublished, callerVars, seed,
                   log, nFail, lastRecvId, coalesced, batchFails, retAtReturn>>
    /\ UNCHANGED extVars

\* Line 159, then 162-196: `case <-longer.C`.
SelLonger ==
    /\ pc = "select"
    /\ longer = "fired"
    /\ batchOpen' = FALSE
    /\ Cleanup(toPublish, waiter, waiterWant, "longer")
    /\ UNCHANGED <<update, ctxDone, toPublish, lastPublished, callerVars, seed,
                   log, nFail, lastRecvId, coalesced, batchFails, retAtReturn>>
    /\ UNCHANGED extVars

\* Lines 181-196: rp.pubfunc returns.  On an error the long timer is reset
\* and the loop continues with toPublish and waiter as they are; on success
\* lastPublished advances, toPublish is cleared and the waiter is closed.
PubReturn(ok) ==
    /\ pc = "pubfunc"
    /\ ok \/ nFail < MaxFailures
    /\ log' = Append(log, [v |-> toPublish.v, id |-> toPublish.id, ok |-> ok])
    /\ nFail' = IF ok THEN nFail ELSE nFail + 1
    /\ retAtReturn' = returned
    /\ inFlight' = inFlight - 1
    /\ batchFails' = IF ok THEN batchFails ELSE batchFails + 1
    /\ lastPublished' = IF ok THEN AfterSuccess(lastPublished, toPublish).last
                        ELSE lastPublished
    /\ toPublish' = IF ok THEN AfterSuccess(lastPublished, toPublish).pending
                    ELSE toPublish
    /\ longer' \in LongerAfterAttempt(ok, longer)
    /\ waiter' = WaiterAfterAttempt(ok, waiter)
    /\ closedW' = ClosedAfterAttempt(ok, waiter, closedW)
    /\ waiterWant' = IF waiter' = None THEN {} ELSE waiterWant
    /\ pc' = IF ok THEN LoopHead ELSE PcAfterFailure
    /\ stopped' = (pc' = "exited")
    /\ UNCHANGED <<update, ctxDone, quick, callerVars, seed, trigger, lastRecvId,
                   batchOpen, coalesced, batchCalls>>
    /\ UNCHANGED extVars

\* ------------------------------------------------------------------ Next
Next ==
    \/ \E u \in Updaters, c \in Values : UpdateCall(u, c)
    \/ \E u \in Updaters : UpdateResend(u)
    \/ \E w \in Waiters : WaitPubCall(w)
    \/ \E w \in Waiters : WaitPubReturnNil(w)
    \/ \E w \in Waiters : WaitPubCtxDone(w)
    \/ Cancel
    \/ QuickFire
    \/ LongerFire
    \/ SelCtxDone
    \/ SelUpdate
    \/ \E w \in Waiters : SelWaiter(w)
    \/ SelQuick
    \/ SelLonger
    \/ \E ok \in BOOLEAN : PubReturn(ok)

Spec == Init /\ [][Next]_vars

\* ------------------------------------------------------------------ Close
\* Close, line 65: rp.once.Do(f).  The first caller runs f; a caller that
\* arrives while f runs waits in Do until f has returned; a later caller
\* goes on to the select of lines 71-75.
CloseCall(c) ==
    /\ cpc[c] = "idle"
    /\ IF once.by = None
       THEN /\ once' = [by |-> c, done |-> FALSE]
            /\ cpc' = [cpc EXCEPT ![c] = "once"]
       ELSE /\ once' = once
            /\ cpc' = [cpc EXCEPT ![c] = IF once.done THEN "select" ELSE "blocked"]
    /\ UNCHANGED <<progVars, histVars, cctx>>
    /\ UNCHANGED treeVars

\* Line 65: f has returned, once.Do lets the waiting caller go on.
ClosePassOnce(c) ==
    /\ cpc[c] = "blocked"
    /\ once.done
    /\ cpc' = [cpc EXCEPT ![c] = "select"]
    /\ UNCHANGED <<progVars, histVars, once, cctx>>
    /\ UNCHANGED treeVars

\* Line 66: `_ = rp.WaitPub(ctx)`, with the context given to Close.
CloseWaitPub(c) ==
    /\ cpc[c] = "once"
    /\ WaitPubCall(c)

CloseWaitPubCtxDone(c) ==
    /\ cpc[c] = "once"
    /\ cctx[c]
    /\ WaitPubCtxDone(c)

\* Lines 67-69: WaitPub has returned (its result is dropped), rp.cancel()
\* cancels the run context and f returns.
CloseCancel(c) ==
    /\ cpc[c] = "once"
    /\ wpc[c] \in {"nil", "err"}
    /\ ctxDone' = TRUE
    /\ once' = [once EXCEPT !.done = TRUE]
    /\ cpc' = [cpc EXCEPT ![c] = "select"]
    /\ UNCHANGED <<update, stopped, pc, toPublish, lastPublished, waiter, quick,
                   longer, closedW, callerVars, seed, loopHist, cctx>>
    /\ UNCHANGED treeVars

\* Lines 74-76: `case <-rp.stopped:`, return nil.
CloseReturnNil(c) ==
    /\ cpc[c] = "select"
    /\ stopped
    /\ cpc' = [cpc EXCEPT ![c] = "nil"]
    /\ UNCHANGED <<progVars, histVars, once, cctx>>
    /\ UNCHANGED treeVars

\* Lines 72-73: `case <-ctx.Done(): return ctx.Err()`.
CloseReturnErr(c) ==
    /\ cpc[c] = "select"
    /\ cctx[c]
    /\ cpc' = [cpc EXCEPT ![c] = "err"]
    /\ UNCHANGED <<progVars, histVars, once, cctx>>
    /\ UNCHANGED treeVars

\* The context given to a Close call ends (cancelled or timed out) while the
\* call is in progress.
CloseCtxEnd(c) ==
    /\ cpc[c] \in {"once", "blocked", "select"}
    /\ ~cctx[c]
    /\ cctx' = [cctx EXCEPT ![c] = TRUE]
    /\ UNCHANGED <<progVars, histVars, cpc, once>>
    /\ UNCHANGED treeVars

\* The Republisher with Close: one goroutine calling Update, the Close
\* callers, and the run context possibly cancelled from outside (the parent
\* context given to NewRepublisher).
CloseNext ==
    \/ \E c \in Values : UpdateCall("u1", c)
    \/ UpdateResend("u1")
    \/ \E c \in Closers : CloseCall(c)
    \/ \E c \in Closers : ClosePassOnce(c)
    \/ \E c \in Closers : CloseWaitPub(c)
    \/ \E c \in Closers : CloseWaitPubCtxDone(c)
    \/ \E c \in Closers : WaitPubReturnNil(c)
    \/ \E c \in Closers : CloseCancel(c)
    \/ \E c \in Closers : CloseReturnNil(c)
    \/ \E c \in Closers : CloseReturnErr(c)
    \/ \E c \in Closers : CloseCtxEnd(c)
    \/ Cancel
    \/ QuickFire
    \/ LongerFire
    \/ SelCtxDone
    \/ SelUpdate
    \/ \E c \in Closers : SelWaiter(c)
    \/ SelQuick
    \/ SelLonger
    \/ \E ok \in BOOLEAN : PubReturn(ok)

\* What the program does by itself in CloseNext.  The callback is only
\* taken to return once the run context is cancelled; when Update and Close
\* are called, and when a context ends, are up to the environment.
CloseRunStep ==
    \/ SelCtxDone
    \/ SelUpdate
    \/ \E c \in Closers : SelWaiter(c)
    \/ SelQuick
    \/ SelLonger

CloseFairness ==
    /\ WF_vars(CloseRunStep)
    /\ WF_vars(ctxDone /\ \E ok \in BOOLEAN : PubReturn(ok))
    /\ WF_vars(QuickFire)
    /\ WF_vars(LongerFire)
    /\ WF_vars(UpdateResend("u1"))
    /\ \A c \in Closers :
        /\ WF_vars(ClosePassOnce(c))
        /\ WF_vars(CloseWaitPub(c))
        /\ WF_vars(CloseWaitPubCtxDone(c))
        /\ WF_vars(CloseReturnErr(c))
        /\ WF_vars(WaitPubReturnNil(c))
        /\ WF_vars(CloseCancel(c))
        /\ WF_vars(CloseReturnNil(c))

CloseSpec == Init /\ [][CloseNext]_vars /\ CloseFairness

\* ------------------------------------------------------------------ File
\* NewFile, lines 64-77: a File for a node of some kind.
NewFile(k) ==
    /\ fnode = "none"
    /\ fnode' = k
    /\ UNCHANGED <<rwW, rwHeld, rwReaders, fpc, fflags, fres, fdId, nOpen,
                   syncSeen, notFile>>

\* AcquireMode with the flags tested in the wrong order: Read+Write takes
\* the read lock.
AcquireModeReadFirst(fl) ==
    IF fl.Read THEN "RLock" ELSE IF fl.Write THEN "Lock" ELSE "none"

\* Open, lines 82-98: the lock Open takes for its flags.
AcquireMode(fl) ==
    IF fl.Write THEN "Lock" ELSE IF fl.Read THEN "RLock" ELSE "none"

\* ReleaseOnError with the deferred unlock forgotten.
ReleaseNothing(fl) == "none"

\* Open, lines 84-88 and 91-95: what the deferred function releases when
\* Open returns an error.
ReleaseOnError(fl) == IF fl.Write THEN "Unlock" ELSE "RUnlock"

\* fileDescriptor.Close: the descriptor lock is held until the descriptor
\* is closed, and released in the mode Open took it.
ReleaseOnClose(fl) == IF fl.Write THEN "Unlock" ELSE "RUnlock"

\* Open, lines 100-129: the body fails on data that is no unixfs node, on a
\* symlink, on a type that is neither file nor raw, and when NewDagModifier
\* fails; a node that is no ProtoNode skips the type check.
OpenFails(kind, moderr) ==
    \/ kind \in {"baddata", "symlink", "directory"}
    \/ moderr

\* sync.RWMutex: Unlock frees the lock and lets in every reader that waited
\* for the writer; RUnlock takes one reader out.  The goroutine t goes on at
\* newpc.
AfterRelease(t, mode, newpc) ==
    /\ rwW' = IF mode = "Unlock" THEN None ELSE rwW
    /\ rwHeld' = IF mode = "Unlock" THEN FALSE ELSE rwHeld
    /\ rwReaders' = CASE mode = "Unlock" ->
                           rwReaders \cup {x \in FThreads \ {t} : fpc[x] = "rwait"}
                      [] mode = "RUnlock" -> rwReaders \ {t}
                      [] OTHER -> rwReaders
    /\ fpc' = [x \in FThreads |->
                 IF x = t THEN newpc
                 ELSE IF mode = "Unlock" /\ fpc[x] = "rwait" THEN "body"
                 ELSE fpc[x]]

\* Open, lines 79-98: with neither Read nor Write return the error at once;
\* with Write call desclock.Lock(); with Read only call desclock.RLock(),
\* which goes through unless a writer holds or awaits the lock.
OpenCall(t, fl) ==
    /\ fnode # "none"
    /\ fpc[t] = "idle"
    /\ nOpen < MaxCalls
    /\ nOpen' = nOpen + 1
    /\ CASE AcquireMode(fl) = "none" ->
              /\ fres' = [fres EXCEPT ![t] = "errflags"]
              /\ UNCHANGED <<fpc, rwReaders, fflags, fdId>>
         [] AcquireMode(fl) = "Lock" ->
              /\ fflags' = [fflags EXCEPT ![t] = fl]
              /\ fdId' = [fdId EXCEPT ![t] = nOpen + 1]
              /\ fres' = [fres EXCEPT ![t] = "none"]
              /\ fpc' = [fpc EXCEPT ![t] = "wlock"]
              /\ UNCHANGED rwReaders
         [] AcquireMode(fl) = "RLock" ->
              /\ fflags' = [fflags EXCEPT ![t] = fl]
              /\ fdId' = [fdId EXCEPT ![t] = nOpen + 1]
              /\ fres' = [fres EXCEPT ![t] = "none"]
              /\ IF rwW = None
                 THEN /\ rwReaders' = rwReaders \cup {t}
                      /\ fpc' = [fpc EXCEPT ![t] = "body"]
                 ELSE /\ rwReaders' = rwReaders
                      /\ fpc' = [fpc EXCEPT ![t] = "rwait"]
    /\ UNCHANGED <<fnode, rwW, rwHeld, syncSeen, notFile>>

\* desclock.Lock(), first half: take the writer mutex rw.w and announce the
\* writer; from now on new readers wait.
LockAnnounce(t) ==
    /\ fpc[t] \in {"wlock", "sync"}
    /\ rwW = None
    /\ rwW' = t
    /\ UNCHANGED <<fnode, rwHeld, rwReaders, fpc, fflags, fres, fdId, nOpen,
                   syncSeen, notFile>>

\* desclock.Lock(), second half: the readers have gone, Lock returns.
LockAcquire(t) ==
    /\ rwW = t
    /\ ~rwHeld
    /\ rwReaders = {}
    /\ rwHeld' = TRUE
    /\ fpc' = [fpc EXCEPT ![t] = IF fpc[t] = "wlock" THEN "body" ELSE "synced"]
    /\ UNCHANGED <<fnode, rwW, rwReaders, fflags, fres, fdId, nOpen, syncSeen,
                   notFile>>

\* Open, lines 100-138, with the lock taken: on an error the deferred
\* function releases the lock and Open returns the error; otherwise Open
\* returns the descriptor and keeps the lock.
OpenBody(t, moderr) ==
    /\ fpc[t] = "body"
    /\ IF OpenFails(fnode, moderr)
       THEN /\ fres' = [fres EXCEPT ![t] = "err"]
            /\ AfterRelease(t, ReleaseOnError(fflags[t]), "idle")
            /\ fflags' = [fflags EXCEPT ![t] = NoFlags]
            /\ fdId' = [fdId EXCEPT ![t] = 0]
       ELSE /\ fres' = [fres EXCEPT ![t] = "ok"]
            /\ fpc' = [fpc EXCEPT ![t] = "open"]
            /\ UNCHANGED <<rwW, rwHeld, rwReaders, fflags, fdId>>
    /\ UNCHANGED <<fnode, nOpen, syncSeen, notFile>>

\* fileDescriptor.Close: the descriptor is closed and its lock released.
FdClose(t) ==
    /\ fpc[t] = "open"
    /\ AfterRelease(t, ReleaseOnClose(fflags[t]), "idle")
    /\ fflags' = [fflags EXCEPT ![t] = NoFlags]
    /\ fdId' = [fdId EXCEPT ![t] = 0]
    /\ fres' = [fres EXCEPT ![t] = "none"]
    /\ UNCHANGED <<fnode, nOpen, syncSeen, notFile>>

\* The descriptors that are open.
OpenFds == {fdId[x] : x \in {y \in FThreads : fpc[y] = "open"}}

\* SyncCall with the bug of not taking the lock at all.
SyncWithoutLock(t) ==
    /\ fnode # "none"
    /\ fpc[t] = "idle"
    /\ nOpen < MaxCalls
    /\ nOpen' = nOpen + 1
    /\ fpc' = [fpc EXCEPT ![t] = "synced"]
    /\ fres' = [fres EXCEPT ![t] = "none"]
    /\ syncSeen' = [syncSeen EXCEPT ![t] = OpenFds]
    /\ UNCHANGED <<fnode, rwW, rwHeld, rwReaders, fflags, fdId, notFile>>

\* Sync, line 199: call desclock.Lock().
SyncCall(t) ==
    /\ fnode # "none"
    /\ fpc[t] = "idle"
    /\ nOpen < MaxCalls
    /\ nOpen' = nOpen + 1
    /\ fpc' = [fpc EXCEPT ![t] = "sync"]
    /\ fres' = [fres EXCEPT ![t] = "none"]
    /\ syncSeen' = [syncSeen EXCEPT ![t] = OpenFds]
    /\ UNCHANGED <<fnode, rwW, rwHeld, rwReaders, fflags, fdId, notFile>>

\* Sync, lines 200-201: desclock.Unlock(), return nil.
SyncReturn(t) ==
    /\ fpc[t] = "synced"
    /\ AfterRelease(t, "Unlock", "idle")
    /\ fres' = [fres EXCEPT ![t] = "nil"]
    /\ syncSeen' = [syncSeen EXCEPT ![t] = {}]
    /\ UNCHANGED <<fnode, fflags, fdId, nOpen, notFile>>

FileNext ==
    \/ \E k \in NodeKinds : NewFile(k)
    \/ \E t \in FThreads, fl \in FlagSet : OpenCall(t, fl)
    \/ \E t \in FThreads : LockAnnounce(t)
    \/ \E t \in FThreads : LockAcquire(t)
    \/ \E t \in FThreads, moderr \in BOOLEAN : OpenBody(t, moderr)
    \/ \E t \in FThreads : FdClose(t)
    \/ \E t \in FThreads : SyncCall(t)
    \/ \E t \in FThreads : SyncReturn(t)

FileSpec == Init /\ [][FileNext]_vars

\* ------------------------------------------------------------------ Root
\* Each goroutine that uses the Root calls Update as an updater, WaitPub on a
\* wait channel and Republisher.Close as a closer of its own.
UpdaterOf(r) == IF r = "r1" THEN "u1" ELSE "u2"
WaiterOf(r) == IF r = "r1" THEN "w1" ELSE "w2"
CloserOf(r) == IF r = "r1" THEN "c1" ELSE "c2"

\* RootSeed with the bug of starting the Republisher with nothing published.
RootSeedUndef(h) == Undef

\* NewRoot, line 109: the lastPublished the Republisher starts with is
\* node.Cid().
RootSeed(h) == h

\* NewRoot, lines 90-113: fail on a node that is no unixfs directory;
\* otherwise make the Root and, with a callback, its Republisher.
NewRoot(pf, h, kind) ==
    /\ root = "none"
    /\ IF kind \notin {"directory", "hamt"}
       THEN /\ root' = "failed"
            /\ UNCHANGED <<dirHash, rootHash0>>
       ELSE /\ pf => seed = RootSeed(h)
            /\ root' = IF pf THEN "repub" ELSE "norepub"
            /\ dirHash' = h
            /\ rootHash0' = h
    /\ UNCHANGED <<store, dirLock, rpc, rval, rres, rop, rclosed, closeSub,
                   notRoot>>

\* A mutation of the tree: the root directory's node has another hash.
Mutate(h) ==
    /\ root \in {"repub", "norepub"}
    /\ h # dirHash
    /\ dirHash' = h
    /\ UNCHANGED <<root, rootHash0, closeSub, store, dirLock, rpc, rval, rres,
                   rop, rclosed, notRoot>>

\* Room for one more Update call in the run.
UpdatesLeft ==
    Len(subs) + Cardinality({r \in Roots : rpc[r] \in {"lock", "add", "update"}})
        < MaxUpdates

\* Flush, lines 123-133, up to the Update call: GetNode fails and Flush
\* returns the error, or there is no Republisher and Flush returns nil, or
\* Flush goes on to Update(nd.Cid()).
FlushCall(r, gn) ==
    /\ root \in {"repub", "norepub"}
    /\ rpc[r] = "idle"
    /\ root = "repub" /\ gn = "ok" => UpdatesLeft
    /\ IF gn = "err"
       THEN /\ rres' = [rres EXCEPT ![r] = "err"]
            /\ UNCHANGED <<rpc, rop, rval>>
       ELSE IF root = "norepub"
       THEN /\ rres' = [rres EXCEPT ![r] = "nil"]
            /\ UNCHANGED <<rpc, rop, rval>>
       ELSE /\ rres' = [rres EXCEPT ![r] = "none"]
            /\ rop' = [rop EXCEPT ![r] = "Flush"]
            /\ rpc' = [rpc EXCEPT ![r] = "update"]
            /\ rval' = [rval EXCEPT ![r] = dirHash]
    /\ UNCHANGED <<root, dirHash, rootHash0, closeSub, store, dirLock, rclosed,
                   notRoot>>

\* updateChildEntry, lines 164-167: called by the root directory with its
\* node; wait for dir.lock.
UceCall(r) ==
    /\ root \in {"repub", "norepub"}
    /\ rpc[r] = "idle"
    /\ root = "repub" => UpdatesLeft
    /\ rop' = [rop EXCEPT ![r] = "updateChildEntry"]
    /\ rres' = [rres EXCEPT ![r] = "none"]
    /\ rpc' = [rpc EXCEPT ![r] = "lock"]
    /\ rval' = [rval EXCEPT ![r] = dirHash]
    /\ UNCHANGED <<root, dirHash, rootHash0, closeSub, store, dirLock, rclosed,
                   notRoot>>

\* Line 167: dir.lock.Lock() returns.
UceLock(r) ==
    /\ rpc[r] = "lock"
    /\ dirLock = None
    /\ dirLock' = r
    /\ rpc' = [rpc EXCEPT ![r] = "add"]
    /\ UNCHANGED <<root, dirHash, rootHash0, closeSub, store, rval, rres, rop,
                   rclosed, notRoot>>

\* UceAfterAdd with the error of Add ignored.
UceIgnoresAddError(ok, hasRepub) == IF hasRepub THEN "update" ELSE "nil"

\* Lines 170-180: where updateChildEntry goes after Add: return the error,
\* call Update, or return nil when there is no Republisher.
UceAfterAdd(ok, hasRepub) ==
    IF ~ok THEN "err" ELSE IF hasRepub THEN "update" ELSE "nil"

\* Lines 169-175: dagService.Add stores the node or fails; either way the
\* lock is released.
UceAdd(r, ok) ==
    /\ rpc[r] = "add"
    /\ store' = IF ok THEN store \cup {rval[r]} ELSE store
    /\ dirLock' = None
    /\ IF UceAfterAdd(ok, root = "repub") = "update"
       THEN /\ rpc' = [rpc EXCEPT ![r] = "update"]
            /\ UNCHANGED <<rres, rop, rval>>
       ELSE /\ rpc' = [rpc EXCEPT ![r] = "idle"]
            /\ rres' = [rres EXCEPT ![r] = UceAfterAdd(ok, root = "repub")]
            /\ rop' = [rop EXCEPT ![r] = "none"]
            /\ rval' = [rval EXCEPT ![r] = Undef]
    /\ UNCHANGED <<root, dirHash, rootHash0, closeSub, rclosed, notRoot>>

\* Root.Close, lines 183-195, up to the Update call.  Without a Republisher
\* Close reads the directory and returns.  With one, the deferred
\* Republisher.Close runs after a GetNode error; otherwise Close goes on to
\* Update(nd.Cid()).  A goroutine closes the Root once.
RootCloseCall(r, gn) ==
    /\ root \in {"repub", "norepub"}
    /\ rpc[r] = "idle"
    /\ wpc[WaiterOf(r)] = "idle"
    /\ cpc[CloserOf(r)] = "idle"
    /\ ~rclosed[r]
    /\ root = "repub" /\ gn = "ok" => UpdatesLeft
    /\ IF root = "norepub"
       THEN /\ rres' = [rres EXCEPT ![r] = IF gn = "ok" THEN "nil" ELSE "err"]
            /\ rclosed' = [rclosed EXCEPT ![r] = TRUE]
            /\ UNCHANGED <<rpc, rop, rval>>
       ELSE IF gn = "err"
       THEN /\ rres' = [rres EXCEPT ![r] = "err"]
            /\ rop' = [rop EXCEPT ![r] = "Close"]
            /\ rpc' = [rpc EXCEPT ![r] = "defer"]
            /\ UNCHANGED <<rval, rclosed>>
       ELSE /\ rres' = [rres EXCEPT ![r] = "none"]
            /\ rop' = [rop EXCEPT ![r] = "Close"]
            /\ rpc' = [rpc EXCEPT ![r] = "update"]
            /\ rval' = [rval EXCEPT ![r] = dirHash]
            /\ UNCHANGED rclosed
    /\ UNCHANGED <<root, dirHash, rootHash0, closeSub, store, dirLock, notRoot>>

\* AfterUpdate with the bug of not waiting in Close: Close returns, and
\* runs the deferred call, right after Update.
AfterUpdateSkipsWait(r) ==
    IF rop[r] = "Close"
    THEN /\ rpc' = [rpc EXCEPT ![r] = "defer"]
         /\ UNCHANGED <<rres, rop, rval>>
    ELSE /\ rpc' = [rpc EXCEPT ![r] = "idle"]
         /\ rres' = [rres EXCEPT ![r] = "nil"]
         /\ rop' = [rop EXCEPT ![r] = "none"]
         /\ rval' = [rval EXCEPT ![r] = Undef]

\* Where a Root operation goes when its Update call has returned: Flush and
\* updateChildEntry return nil (lines 132, 180), Close goes on to WaitPub
\* (line 199).
AfterUpdate(r) ==
    IF rop[r] = "Close"
    THEN /\ rpc' = [rpc EXCEPT ![r] = "waitpub"]
         /\ UNCHANGED <<rres, rop, rval>>
    ELSE /\ rpc' = [rpc EXCEPT ![r] = "idle"]
         /\ rres' = [rres EXCEPT ![r] = "nil"]
         /\ rop' = [rop EXCEPT ![r] = "none"]
         /\ rval' = [rval EXCEPT ![r] = Undef]

\* kr.repub.Update, lines 130, 178 and 194: the first select of Update.
RootUpdate(r) ==
    /\ rpc[r] = "update"
    /\ UpdateCallBody(UpdaterOf(r), rval[r])
    /\ closeSub' = IF rop[r] = "Close" THEN Len(subs) + 1 ELSE closeSub
    /\ IF update # <<>>
       THEN /\ rpc' = [rpc EXCEPT ![r] = "resend"]
            /\ UNCHANGED <<rres, rop, rval>>
       ELSE AfterUpdate(r)
    /\ UNCHANGED <<root, dirHash, rootHash0, store, dirLock, rclosed, closeVars,
                   fileVars>>

\* ... and the inner select of that Update.
RootResend(r) ==
    /\ rpc[r] = "resend"
    /\ UpdateResendBody(UpdaterOf(r))
    /\ AfterUpdate(r)
    /\ UNCHANGED <<root, dirHash, rootHash0, closeSub, store, dirLock, rclosed,
                   closeVars, fileVars>>

\* Close, line 199: kr.repub.WaitPub(ctx) is called.
RootWaitPubCall(r) ==
    /\ rpc[r] = "waitpub"
    /\ WaitPubCall(WaiterOf(r))

\* Close, lines 197-199: closeTimeout runs out while WaitPub blocks.
RootWaitPubTimeout(r) ==
    /\ rpc[r] = "waitpub"
    /\ WaitPubCtxDone(WaiterOf(r))

\* Close, lines 199-205: WaitPub has returned; Close returns its error or
\* nil, which runs the deferred call.
RootAfterWaitPub(r) ==
    /\ rpc[r] = "waitpub"
    /\ wpc[WaiterOf(r)] \in {"nil", "err"}
    /\ rpc' = [rpc EXCEPT ![r] = "defer"]
    /\ rres' = [rres EXCEPT ![r] = IF wpc[WaiterOf(r)] = "err" THEN "err" ELSE "none"]
    /\ UNCHANGED <<root, dirHash, rootHash0, closeSub, store, dirLock, rval, rop,
                   rclosed, notRoot>>

\* Close, lines 184-186: the deferred kr.repub.Close() is called.
RootDeferClose(r) ==
    /\ rpc[r] = "defer"
    /\ CloseCall(CloserOf(r))

\* Close returns once the deferred Republisher.Close has returned; its
\* result is not Close's.
RootCloseReturn(r) ==
    /\ rpc[r] = "defer"
    /\ cpc[CloserOf(r)] \in {"nil", "err"}
    /\ rpc' = [rpc EXCEPT ![r] = "idle"]
    /\ rres' = [rres EXCEPT ![r] = IF rres[r] = "none" THEN "nil" ELSE rres[r]]
    /\ rop' = [rop EXCEPT ![r] = "none"]
    /\ rval' = [rval EXCEPT ![r] = Undef]
    /\ rclosed' = [rclosed EXCEPT ![r] = TRUE]
    /\ UNCHANGED <<root, dirHash, rootHash0, closeSub, store, dirLock, notRoot>>

\* A Root used by two goroutines, with the Republisher it started.  Nothing
\* but Republisher.Close cancels the run loop's context.
RootNext ==
    \/ \E pf \in BOOLEAN, h \in RootHashes, kind \in RootKinds : NewRoot(pf, h, kind)
    \/ \E h \in RootHashes : Mutate(h)
    \/ \E gn \in {"ok", "err"} : FlushCall(Owner, gn)
    \/ \E r \in Roots : UceCall(r)
    \/ \E r \in Roots : UceLock(r)
    \/ \E r \in Roots, ok \in BOOLEAN : UceAdd(r, ok)
    \/ \E gn \in {"ok", "err"} : RootCloseCall(Owner, gn)
    \/ \E r \in Roots : RootUpdate(r)
    \/ \E r \in Roots : RootResend(r)
    \/ RootWaitPubCall(Owner)
    \/ RootWaitPubTimeout(Owner)
    \/ WaitPubReturnNil(WaiterOf(Owner))
    \/ RootAfterWaitPub(Owner)
    \/ RootDeferClose(Owner)
    \/ CloseWaitPub(CloserOf(Owner))
    \/ CloseWaitPubCtxDone(CloserOf(Owner))
    \/ WaitPubReturnNil(CloserOf(Owner))
    \/ CloseCancel(CloserOf(Owner))
    \/ CloseReturnNil(CloserOf(Owner))
    \/ CloseReturnErr(CloserOf(Owner))
    \/ CloseCtxEnd(CloserOf(Owner))
    \/ RootCloseReturn(Owner)
    \/ QuickFire
    \/ LongerFire
    \/ SelCtxDone
    \/ SelUpdate
    \/ \E w \in {WaiterOf(Owner), CloserOf(Owner)} : SelWaiter(w)
    \/ SelQuick
    \/ SelLonger
    \/ \E ok \in BOOLEAN : PubReturn(ok)

RootSpec == Init /\ [][RootNext]_vars

\* The steps the program takes by itself once enabled: run's select cases (Go
\* serves a ready case), the callback returning, a running timer expiring,
\* and a caller past its blocking point going on.  When a caller calls, when
\* its context ends and when the run context is cancelled are up to the
\* environment.
RunStep ==
    \/ SelCtxDone
    \/ SelUpdate
    \/ \E w \in Waiters : SelWaiter(w)
    \/ SelQuick
    \/ SelLonger

Fairness ==
    /\ WF_vars(RunStep)
    /\ WF_vars(\E ok \in BOOLEAN : PubReturn(ok))
    /\ WF_vars(QuickFire)
    /\ WF_vars(LongerFire)
    /\ \A w \in Waiters : WF_vars(WaitPubReturnNil(w))
    /\ \A u \in Updaters : WF_vars(UpdateResend(u))

FairSpec == Spec /\ Fairness

\* ================================================================== claims
\* The values for which the callback has returned successfully.
OkValues == {log[i].v : i \in {k \in DOMAIN log : log[k].ok}}

\* ------------------------------------------------------------------ C1
\* run has received v1 and then v2 back to back (no timer case and no WaitPub
\* request taken between the two receipts), v1 # v2, both different from
\* lastPublished: coalesced is v1 and toPublish is v2.

ReturnedSinceAttempt == returned \ retAtReturn

\* C2: when an attempt begins after a failed attempt for v1, and Update
\* calls have returned since that failure, none of them with v1, the
\* callback is not invoked with v1 again: the retry carries the newer value.
\* (Refuted by the code: a timer case taken while the newer value is still
\* in the update channel publishes the stale toPublish.)
C2_RetryForward ==
    [][(/\ pc = "select"
        /\ pc' = "pubfunc"
        /\ log # <<>>
        /\ ~Last(log).ok
        /\ ReturnedSinceAttempt # {}
        /\ \A j \in ReturnedSinceAttempt : subs[j] # Last(log).v)
       => toPublish'.v # Last(log).v]_vars

\* ------------------------------------------------------------------ C3
\* C3: when an attempt succeeds after an attempt has failed, every WaitPub
\* call whose request run has taken and that is still waiting has its wait
\* channel closed (so that it returns nil).
\* (Refuted by the code: taking a second request overwrites `waiter`, and
\* the channel of the first call is never closed.)
C3_NoWaiterLost ==
    [][(/\ pc = "pubfunc"
        /\ nFail > 0
        /\ Len(log') = Len(log) + 1
        /\ Last(log').ok)
       => \A w \in Waiters : wpc[w] = "wait" => w \in closedW']_vars

\* ------------------------------------------------------------------ C4
\* The step closes the wait channel of w.
Released(w) == w \notin closedW /\ w \in closedW'

\* The Update calls that had returned when run took the request of the
\* WaitPub call being released: the values that call waits for.
WantOf(w) == IF waiter = w THEN waiterWant ELSE returned

\* Update call j is call u, or was not over when u began (it was submitted
\* after u, or concurrently with it).
NotBefore(j, u) == j = u \/ j \notin hbefore[u]

\* C4: a WaitPub call is released with success only when, for every value it
\* waits for, the callback has returned successfully for that value or for a
\* value submitted after it -- or that value is the lastPublished given to
\* NewRepublisher, to count the seed as published.
\* (Refuted by the code: while a concurrent Update has taken a returned
\* Update's value out of rp.update and not yet sent its own, run finds
\* nothing to publish and closes the waiter.)
C4_PublishedBeforeRelease ==
    [][\A w \in Waiters : Released(w) =>
         \A u \in WantOf(w) : \E j \in DOMAIN subs :
             NotBefore(j, u) /\ subs[j] \in OkValues' \cup {seed}]_vars

\* ------------------------------------------------------------------ C5
\* C5: the callback is never invoked with a value equal to lastPublished
\* (nor with Undef): receiving an update equal to lastPublished clears
\* toPublish instead of publishing it.
C5_NoRepublish ==
    pc = "pubfunc" => Defined(toPublish) /\ ~Equals(toPublish, lastPublished)

\* C5 witness: after a successful publish of a value, the same value was
\* submitted again, received and skipped: nothing is pending.
C5_Witness ==
    /\ pc = "select"
    /\ lastPublished.id > 0
    /\ lastRecvId > lastPublished.id
    /\ subs[lastRecvId] = lastPublished.v
    /\ ~Defined(toPublish)
    /\ Len(log) = 1

\* ------------------------------------------------------------------ C6
\* C6: when run takes the request of a WaitPub call while nothing is pending
\* (toPublish is undefined, and rp.update is empty or holds a value equal to
\* lastPublished), the call's wait channel is closed in the same iteration
\* (WaitPub returns nil) and the callback is not invoked.
C6_NothingPending ==
    [][\A w \in Waiters :
         (/\ wpc[w] = "send"
          /\ wpc'[w] = "wait"
          /\ ~Defined(toPublish)
          /\ update = <<>> \/ Equals(Head(update), lastPublished))
         => /\ w \in closedW'
            /\ pc' # "pubfunc"
            /\ log' = log
            /\ lastPublished' = lastPublished]_vars

\* C6 witness: a WaitPub call has returned nil although the callback was
\* never invoked, after an update (equal to lastPublished) had been submitted.
C6_Witness ==
    \E w \in Waiters :
        /\ wpc[w] = "nil"
        /\ log = <<>>
        /\ pc = "select"
        /\ subs # <<>>
        /\ returned = DOMAIN subs
        /\ update = <<>>
        /\ ~Defined(toPublish)

\* ------------------------------------------------------------------ C7
\* C7: a WaitPub call whose own context ends while run is inside the
\* callback returns the context's error, and that step leaves the attempt
\* alone: run stays in the callback with the same toPublish, lastPublished,
\* waiter and timers, its context is not cancelled, and no wait channel is
\* closed (the attempt can still return and advance lastPublished).
C7_CancelLeavesAttempt ==
    [][\A w \in Waiters :
         (/\ pc = "pubfunc"
          /\ wpc[w] \in {"send", "wait"}
          /\ wpc'[w] = "err")
         => /\ pc' = "pubfunc"
            /\ UNCHANGED <<toPublish, lastPublished, waiter, quick, longer,
                           ctxDone, stopped, closedW, update, log>>]_vars

\* C7 witness: the first attempt, begun by the request of w, is in flight
\* and w's WaitPub has returned its context's error meanwhile.
C7_Witness ==
    \E w \in Waiters :
        /\ pc = "pubfunc"
        /\ log = <<>>
        /\ waiter = w
        /\ wpc[w] = "err"
        /\ ~ctxDone

C9_Monotonic ==
    \A a, b \in DOMAIN log :
        (a < b /\ log[a].ok /\ log[b].ok /\ log[a].id > 0 /\ log[b].id > 0)
        => log[b].id \notin hbefore[log[a].id]

\* C9 witness: two successes, the second for an Update call that began after
\* the first one's had returned, with another value.
C9_Witness ==
    /\ Len(log) >= 2
    /\ log[1].ok
    /\ log[2].ok
    /\ log[1].v # log[2].v
    /\ log[2].id > 0
    /\ log[1].id \in hbefore[log[2].id]

\* ------------------------------------------------------------------ C10
\* C10: run has returned (and rp.stopped is closed) only if its context was
\* cancelled: no failed attempt, Update or WaitPub request makes it exit.
C10_ExitOnlyOnShutdown ==
    (pc = "exited" \/ stopped) => ctxDone

\* C10 witness: after a failed attempt, with updates submitted and a WaitPub
\* request taken, run is back at its select, its context not cancelled.
C10_Witness ==
    /\ nFail >= 1
    /\ pc = "select"
    /\ ~ctxDone
    /\ ~stopped
    /\ waiter # None
    /\ subs # <<>>

\* ------------------------------------------------------------------ C11
\* C11: a WaitPub call whose request run has taken and whose wait channel is
\* not closed when run has terminated does not stay blocked: it is released
\* (with an error, its channel being closed no more).
\* (Refuted by the code: run returns without touching `waiter`, and WaitPub
\* waits for its wait channel and its own context only, not for rp.stopped.)
C11_ReleasedOnShutdown ==
    \A w \in Waiters :
        [](stopped /\ wpc[w] = "wait" /\ w \notin closedW => <>(wpc[w] = "err"))

\* ------------------------------------------------------------------ C12
\* C12: a Close call that has returned nil finds the run loop terminated
\* (rp.stopped closed, no callback invocation any more), and every Close
\* call returns, the callback returning once the run context is cancelled.
\* (Refuted by the code: Close cancels the run context only after its
\* WaitPub has returned, and WaitPub returns on a publish or on the end of
\* the caller's context only.)
C12_CloseStops ==
    /\ [](\A c \in Closers : cpc[c] = "nil" => stopped /\ pc = "exited")
    /\ \A c \in Closers :
         [](cpc[c] \in {"once", "blocked", "select"} => <>(cpc[c] \in {"nil", "err"}))

\* ------------------------------------------------------------------ C13
\* C13: a Close call other than the one that runs once.Do's function calls
\* no WaitPub, and once the run loop has terminated it returns (nil, or its
\* own context's error), whether it came after the first call or during it.
\* (Refuted by the code: it waits in once.Do for the first call's WaitPub,
\* which a terminated loop never releases; see C11 and C12.)
C13_SecondClose ==
    /\ [](\A c \in Closers : c # once.by => wpc[c] = "idle")
    /\ \A c \in Closers :
         [](stopped /\ c # once.by /\ cpc[c] \in {"blocked", "select"}
               => <>(cpc[c] \in {"nil", "err"}))

\* ------------------------------------------------------------------ File claims
\* The goroutines holding a descriptor that Open returned and that is not
\* closed yet.
Holders == {t \in FThreads : fpc[t] = "open"}

\* C14: the descriptors open at one time are one write-mode descriptor and
\* nothing else, or read-only descriptors only; an Open with Write set
\* (Read+Write included) is not past its lock while another descriptor is
\* open; and a read-only Open waits only while a writer holds or awaits the
\* lock, never because of other readers alone.
C14_DescriptorLocking ==
    /\ \A t \in Holders : \A u \in Holders \ {t} :
           ~fflags[t].Write /\ ~fflags[u].Write
    /\ \A t \in FThreads :
           fpc[t] \in {"body", "open"} /\ fflags[t].Write => Holders \subseteq {t}
    /\ \A t \in FThreads : fpc[t] = "rwait" => rwW # None

\* C14 witness: two read-only descriptors are open at once while an Open
\* with Write set waits for them.
C14_Witness ==
    \E t \in Holders : \E u \in Holders \ {t} : \E w \in FThreads \ {t, u} :
        /\ fpc[w] = "wlock"
        /\ rwW = w
        /\ fflags[w] = [Read |-> TRUE, Write |-> TRUE]

\* C15: when Sync returns, every descriptor that was open when Sync was
\* called has been closed, the content node is the one it was, and Sync
\* holds the descriptor lock in no mode.
C15_SyncBarrier ==
    [][\A t \in FThreads :
          SyncReturn(t) =>
              /\ syncSeen[t] \cap OpenFds = {}
              /\ OpenFds' = OpenFds
              /\ fnode' = fnode
              /\ rwW' = None /\ ~rwHeld' /\ t \notin rwReaders']_vars

\* C15 witness: Sync was called with descriptors open, they are closed and
\* Sync has the lock.
C15_Witness ==
    \E t \in FThreads :
        /\ fpc[t] = "synced"
        /\ syncSeen[t] # {}
        /\ OpenFds = {}

\* C16: an Open that fails holds the descriptor lock in no mode afterwards:
\* with neither Read nor Write it fails without touching the lock; failing
\* after Lock it gives up the write lock, failing after RLock it leaves the
\* readers, and nothing else about the lock changes.
C16_FailedOpenHoldsNothing ==
    /\ [](\A t \in FThreads : fpc[t] = "idle" => rwW # t /\ t \notin rwReaders)
    /\ [][\A t \in FThreads :
            /\ (\E fl \in FlagSet : OpenCall(t, fl)) /\ fres'[t] = "errflags"
                  => UNCHANGED <<rwW, rwHeld, rwReaders>>
            /\ (\E m \in BOOLEAN : OpenBody(t, m)) /\ fres'[t] = "err"
                  => IF fflags[t].Write
                     THEN rwW = t /\ rwHeld /\ rwW' = None /\ ~rwHeld'
                     ELSE /\ t \in rwReaders
                          /\ rwReaders' = rwReaders \ {t}
                          /\ UNCHANGED <<rwW, rwHeld>>]_vars

\* C16 witness: on a symlink one Open failed after taking the lock and one
\* failed for its flags, and the lock is free.
C16_Witness ==
    \E t \in FThreads : \E u \in FThreads \ {t} :
        /\ fnode = "symlink"
        /\ fres[t] = "err"
        /\ fres[u] = "errflags"
        /\ rwW = None /\ rwReaders = {}

\* ------------------------------------------------------------------ Root claims
\* C17: updateChildEntry has stored the child's node when it calls Update,
\* and holds dir.lock only around Add; when Add fails it returns the error,
\* has released the lock, and submits nothing.
C17_StoredBeforeUpdate ==
    /\ [](\A r \in Roots :
             /\ rop[r] = "updateChildEntry" /\ rpc[r] \in {"update", "resend"}
                    => rval[r] \in store
             /\ dirLock = r => rpc[r] = "add")
    /\ [][\A r \in Roots :
             UceAdd(r, FALSE) =>
                 /\ rres'[r] = "err"
                 /\ rpc'[r] = "idle"
                 /\ dirLock' = None
                 /\ subs' = subs /\ update' = update /\ store' = store]_vars

\* C17 witness: one updateChildEntry has stored its node and is about to
\* call Update for it, after another one's Add failed.
C17_Witness ==
    /\ root = "repub"
    /\ rop["r1"] = "updateChildEntry"
    /\ rpc["r1"] = "update"
    /\ store = {rval["r1"]}
    /\ rres["r2"] = "err"

\* C18: with a callback, as long as every hash submitted is the hash of the
\* node given to NewRoot (Flush and Close on a tree that was not modified)
\* the callback is not invoked, and the first invocation of the callback
\* carries another hash than that one.
C18_SeededAsPublished ==
    root = "repub" =>
        /\ (\A i \in 1..Len(subs) : subs[i] = rootHash0)
               => log = <<>> /\ pc # "pubfunc"
        /\ log # <<>> => log[1].v # rootHash0
        /\ log = <<>> /\ pc = "pubfunc" => toPublish.v # rootHash0

\* C18 witness: Flush and then Close have run to the end on an unmodified
\* tree, both have submitted the root hash, and nothing was published.
C18_Witness ==
    /\ root = "repub"
    /\ rclosed[Owner]
    /\ rres[Owner] = "nil"
    /\ Len(subs) >= 2
    /\ \A i \in 1..Len(subs) : subs[i] = rootHash0
    /\ stopped
    /\ log = <<>>

C20_UpdateNeverBlocks ==
    /\ [](\A r \in Roots :
             /\ rpc[r] = "update" => ENABLED RootUpdate(r)
             /\ rpc[r] = "resend" => ENABLED RootResend(r))
    /\ [][\A r \in Roots :
             /\ (RootUpdate(r) \/ RootResend(r)) /\ rop[r] # "Close" /\ rpc'[r] = "idle"
                   => rres'[r] = "nil"
             /\ rres'[r] = "err" /\ rres[r] # "err"
                   => \/ FlushCall(r, "err")
                      \/ UceAdd(r, FALSE)
                      \/ RootCloseCall(r, "err")
                      \/ rop[r] = "Close"]_vars

\* C20 witness: the run loop has terminated after a failed publish attempt,
\* and an updateChildEntry is about to call Update.
C20_Witness ==
    /\ stopped
    /\ nFail > 0
    /\ rpc["r2"] = "update"
    /\ rop["r2"] = "updateChildEntry"

\* ------------------------------------------------------------------ run loop, more claims
\* The step in which the callback returns an error.
AttemptFails == pc = "pubfunc" /\ log' # log /\ ~Last(log').ok

\* C21: the step in which the callback returns an error leaves lastPublished
\* and the pending value as they were during the attempt, closes no wait
\* channel, keeps the loop's waiter and lets no WaitPub call return.
C21_FailureChangesNothing ==
    [][AttemptFails =>
          /\ lastPublished' = lastPublished
          /\ toPublish' = toPublish
          /\ closedW' = closedW
          /\ waiter' = waiter
          /\ wpc' = wpc]_vars

\* C21 witness: an attempt made for a WaitPub request has failed; the value
\* is still pending and the caller still waits.
C21_Witness ==
    /\ log # <<>>
    /\ ~Last(log).ok
    /\ pc = "select"
    /\ waiter # None
    /\ wpc[waiter] = "wait"
    /\ waiter \notin closedW
    /\ toPublish.v = Last(log).v

\* C22: an attempt that follows a failed one is never made for the expiry
\* of the short timer: the select case behind it is the long timer or a
\* WaitPub request, also when an Update arrived after the failure.
C22_RetryAtLongCadence ==
    pc = "pubfunc" /\ log # <<>> /\ ~Last(log).ok => trigger # "quick"

\* The Update calls after whose return no other Update call began: the last
\* ones, several when calls overlap.
LastCalls == {i \in 1..Len(subs) : \A j \in 1..Len(subs) : i \notin hbefore[j]}
LastValues == {subs[i] : i \in LastCalls}

\* C23: once n Update calls have been made and have returned, then, unless
\* the loop is shut down or another Update is made, lastPublished
\* eventually is the value of a last call (timers fire, the callback fails
\* a bounded number of times).
C23_EventuallyPublished ==
    \A n \in 1..MaxUpdates :
        [](Len(subs) = n /\ returned = 1..n
              => <>(ctxDone \/ Len(subs) > n \/ lastPublished.v \in LastValues))

\* C23 witness: the last of two different values is published after the
\* first one was pending and after a failed attempt.
C23_Witness ==
    /\ ~ctxDone
    /\ Len(subs) = 2
    /\ returned = {1, 2}
    /\ subs[1] # subs[2]
    /\ 1 \in hbefore[2]
    /\ nFail > 0
    /\ lastPublished = Cid(subs[2], 2)
    /\ toPublish = UndefCid

\* A timer that was Reset and has not been stopped since: it is running, or
\* it has expired and its channel holds the value the select will receive.
TimerSet(t) == t # "stopped"

\* The steps of the loop after which both timers are to be stopped: the
\* callback returns nil, an update equal to lastPublished is received, or a
\* WaitPub request is taken with nothing to publish.
StopsTimers ==
    \/ PubReturn(TRUE)
    \/ SelUpdate /\ IsAlreadyPublished(lastPublished, Head(update))
    \/ \E w \in Waiters : SelWaiter(w) /\ ~Defined(toPublish')

\* C24: whenever the run loop is at its select, the long timer is set if and
\* only if a value is pending and the short timer is set only if a value is
\* pending; after a successful publish, after an update equal to
\* lastPublished and after a WaitPub with nothing to publish both timers are
\* stopped.
C24_TimersFollowPending ==
    /\ [](pc = "select" =>
              /\ TimerSet(longer) <=> Defined(toPublish)
              /\ TimerSet(quick) => Defined(toPublish))
    /\ [][StopsTimers => quick' = "stopped" /\ longer' = "stopped"]_vars

\* C24 witness: after a successful publish and a later failed attempt the
\* loop is at its select with a value pending, the long timer set and the
\* short timer stopped.
C24_Witness ==
    /\ pc = "select"
    /\ Len(log) = 2 /\ log[1].ok /\ ~log[2].ok
    /\ Defined(toPublish)
    /\ TimerSet(longer)
    /\ quick = "stopped"

\* C25: at most one invocation of the callback is in flight, it is the run
\* loop that is in it, and the step that begins an invocation is a step of
\* the loop at its select, not a step of an Update or a Close call.
C25_OneInvocationInFlight ==
    /\ [](inFlight <= 1 /\ (inFlight = 1 => pc = "pubfunc"))
    /\ [][inFlight' > inFlight =>
              pc = "select" /\ inFlight = 0 /\ upc' = upc /\ cpc' = cpc]_vars

\* C25 witness: the callback is running for the second time while one Close
\* call waits in WaitPub, another is blocked on rp.once, and an update sent
\* meanwhile is in the channel.
C25_Witness ==
    /\ pc = "pubfunc"
    /\ inFlight = 1
    /\ log # <<>>
    /\ update # <<>>
    /\ \E c \in Closers :
          /\ wpc[c] = "wait"
          /\ \E d \in Closers \ {c} : cpc[d] = "blocked"

====
